---- MODULE Spec2Model ----
(***************************************************************************)
(* The p5 sketch of src/components/P5Canvas.tsx as a state machine: the    *)
(* closure variables of the sketch (img, highlightLayer, view, lastMouse,  *)
(* isDragging, currentProps), p5's own pointer fields, the image loads in  *)
(* flight and the callbacks handed to the caller.                          *)
(*                                                                         *)
(* Lengths are kept in thousandths (Milli): view.zoom = 950 is the         *)
(* JavaScript number 0.95, view.x = 52500 is 52.5 pixels.  Pointer and     *)
(* raster sizes are whole pixels.                                          *)
(***************************************************************************)
EXTENDS Integers, Sequences, FiniteSets, TLC

VARIABLES
    pc,             \* "constructed" after new p5(sketch), "running" after setup
    width,          \* p.width
    height,         \* p.height
    img,            \* let img: p5.Image | undefined
    highlightLayer, \* let highlightLayer: p5.Graphics
    view,           \* let view = { x, y, zoom }
    lastMouse,      \* let lastMouse = { x, y }
    isDragging,     \* let isDragging
    currentProps,   \* let currentProps
    mouse,          \* p.mouseX, p.mouseY
    pmouse,         \* p.pmouseX, p.pmouseY
    mouseIsPressed, \* p5: a button is held down
    mouseButton,    \* p.mouseButton
    staleLoads,     \* per URL, the display loads in flight whose image img no longer holds
    nLoads,         \* number of display loads started so far
    composites,     \* one record per trigger edge seen by updateWithProps
    brushCalls,     \* the sizes onBrushSizeChange was called with, in order
    wheel,          \* the wheel events handled inside the canvas: their number and the last one
    app             \* the state hooks of function App in src/App.tsx

vars == << pc, width, height, img, highlightLayer, view, lastMouse, isDragging,
           currentProps, mouse, pmouse, mouseIsPressed, mouseButton,
           staleLoads, nLoads, composites, brushCalls, wheel, app >>

----------------------------------------------------------------------------
(* Bounds of the model *)

\* display loads started in one run
MaxDisplayLoads == 2
\* trigger edges in one run
MaxTriggers == 1
\* stroke segments held by the highlight layer
MaxStrokes == 1
\* largest |view.x|, |view.y| a pan may reach, in pixels
MaxPan == 400
\* entries of the highlights list of App
MaxHighlights == 1
\* wheel events delivered inside the canvas in one run
MaxWheels == 2

----------------------------------------------------------------------------
(* Values *)

Milli == 1000

NULL == "null"

\* the display URLs the caller supplies, and the full-resolution URL
DisplayUrls == {"a", "b"}
FullResUrls == {"fa"}

\* pixel size of the raster behind each URL
ImgWidth(url) ==
    CASE url = "a" -> 200
      [] url = "b" -> 800
      [] url = "fa" -> 400
      [] OTHER -> 1

ImgHeight(url) ==
    CASE url = "a" -> 200
      [] url = "b" -> 200
      [] url = "fa" -> 400
      [] OTHER -> 1

\* sketchRef.current.offsetWidth / offsetHeight
OffsetWidth == 400
OffsetHeight == 200

\* pointer positions delivered by the host: one outside the canvas, two inside
MousePoints == { [x |-> -10, y |-> 50], [x |-> 100, y |-> 50], [x |-> 300, y |-> 150] }

LEFT == "left"
Buttons == {LEFT}

\* event.deltaY of a wheel event: a notch away from the user, a horizontal
\* scroll, a notch towards the user
DeltaYs == {-100, 0, 100}

\* sizes the container of the canvas takes when the window is resized: the
\* size of the mount, two narrow ones, a very large one and the size of a
\* hidden container
ContainerSizes ==
    { [w |-> 400, h |-> 200], [w |-> 88, h |-> 200], [w |-> 40, h |-> 200],
      [w |-> 8320, h |-> 2080], [w |-> 0, h |-> 0] }

BrushSizes == {40}
HighlightColors == {"#FFFF00"}

\* interface P5CanvasProps, without the three callbacks (their invocations
\* are recorded in composites)
PropsSet ==
    [ displayImgUrl : DisplayUrls \cup {NULL},
      fullResImgUrl : FullResUrls \cup {NULL},
      highlighting : BOOLEAN,
      brushSize : BrushSizes,
      highlightColor : HighlightColors,
      generationTrigger : BOOLEAN ]

\* the props the component is mounted with
MountProps == PropsSet

\* img === undefined
NoImg == [url |-> NULL, state |-> "none"]

\* highlightLayer before the first createGraphics
NoLayer == [exists |-> FALSE, w |-> 0, h |-> 0, strokes |-> {}]

\* the artifact of a trigger edge before onCompositeImageReady is called
NoArtifact == [raster |-> NULL, w |-> 0, h |-> 0, layer |-> NoLayer]

----------------------------------------------------------------------------
(* Viewport arithmetic *)

\* a fit that always takes the width of the canvas
FitZoomToWidth(iw, ih, cw, ch) == (cw * 950) \div iw

\* lines 36-43: zoom that fits the image into the canvas with a 5% margin
FitZoom(iw, ih, cw, ch) ==
    IF iw * ch > cw * ih
    THEN (cw * 950) \div iw
    ELSE (ch * 950) \div ih

\* lines 45-46: offset that centres the scaled image
FitOffset(size, canvas, zoom) == (canvas * Milli - size * zoom) \div 2

\* lines 150-153: screen pixel to image space
ScreenToImage(s, offset, zoom) == ((s * Milli - offset) * Milli) \div zoom

\* a pan that stops at the left and top edge of the canvas
PanStoppedAtEdge(v, dx, dy) ==
    [v EXCEPT !.x = IF @ + dx * Milli < 0 THEN 0 ELSE @ + dx * Milli,
              !.y = IF @ + dy * Milli < 0 THEN 0 ELSE @ + dy * Milli]

\* lines 144-145: the viewport after a pan by (dx, dy) pixels
Pan(v, dx, dy) == [v EXCEPT !.x = @ + dx * Milli, !.y = @ + dy * Milli]

\* a direction with the sign of deltaY
DirectionOfDelta(deltaY) == IF deltaY > 0 THEN 1 ELSE -1

\* line 167
Direction(deltaY) == IF deltaY > 0 THEN -1 ELSE 1

\* line 170: the change of the brush size per notch
BrushStep == 5

\* line 175: zoomFactor, 0.05
ZoomFactor == 50

\* line 177: the limits of the zoom, 0.1 and 10
MinZoom == 100
MaxZoom == 10000

\* a constrain that lets every number through
constrainNothing(n, low, high) == n

\* p.constrain
constrain(n, low, high) == IF n < low THEN low ELSE IF n > high THEN high ELSE n

\* lines 176-177: the zoom after a notch in the given direction
WheelZoom(zoom, direction) ==
    constrain((zoom * (Milli + direction * ZoomFactor)) \div Milli, MinZoom, MaxZoom)

\* a zoom that leaves the offset where it was
PivotOffsetKept(s, offset, zoom, oldZoom) == offset

\* lines 179-180: the offset after the zoom changed from oldZoom to zoom
\* about the screen pixel s
PivotOffset(s, offset, zoom, oldZoom) ==
    s * Milli - ((s * Milli - offset) * zoom) \div oldZoom

\* a bounds test that lets every event through
NeverOutOfBounds(pt) == FALSE

\* the bounds test shared by mousePressed, mouseDragged and mouseWheel
OutOfBounds(pt) == pt.x < 0 \/ pt.x > width \/ pt.y < 0 \/ pt.y > height

----------------------------------------------------------------------------
(* updateWithProps *)

\* line 32
DisplayUrlChanged(newProps, cur) ==
    newProps.displayImgUrl # NULL /\ newProps.displayImgUrl # cur.displayImgUrl

\* line 55
DisplayUrlDropped(newProps, cur) ==
    newProps.displayImgUrl = NULL /\ cur.displayImgUrl # NULL

\* a trigger that is level-sensitive: the test of the previous props is lost
TriggerLevel(newProps, cur) ==
    newProps.generationTrigger

\* line 60
TriggerEdge(newProps, cur) ==
    newProps.generationTrigger /\ ~cur.generationTrigger

\* line 61
CompositeStarts(layer, newProps) ==
    layer.exists /\ newProps.fullResImgUrl # NULL

\* the two callbacks of a successful load in the wrong order
LoadSuccessCallsSwapped == << "onGenerationTriggerConsumed", "onCompositeImageReady" >>

\* lines 75-76: the callbacks of a successful full-resolution load, in order
LoadSuccessCalls == << "onCompositeImageReady", "onGenerationTriggerConsumed" >>

\* a failure callback that forgets to consume the trigger
LoadFailureCallsNone == << >>

\* line 82: the callbacks of a failed full-resolution load
LoadFailureCalls == << "onGenerationTriggerConsumed" >>

\* an else branch that forgets to consume the trigger
NoLoadCallsNone == << >>

\* line 86: the callbacks of a trigger that starts no load
NoLoadCalls == << "onGenerationTriggerConsumed" >>

\* lines 60-88: the record of a trigger edge: the fullResImgUrl of the props
\* that carried it, the full-resolution load, the callbacks invoked so far and
\* the artifact handed to onCompositeImageReady; imgAtTrigger and
\* layerAtTrigger record what img and highlightLayer were when the edge was
\* seen, replaced whether img was assigned the image of another display URL
\* while the load was in flight
NewComposite(newProps, imgNow, layerNow) ==
    [ fullResImgUrl |-> newProps.fullResImgUrl,
      load |-> IF CompositeStarts(layerNow, newProps) THEN "pending" ELSE "none",
      url |-> IF CompositeStarts(layerNow, newProps) THEN newProps.fullResImgUrl ELSE NULL,
      calls |-> IF CompositeStarts(layerNow, newProps) THEN << >> ELSE NoLoadCalls,
      artifact |-> NoArtifact,
      imgAtTrigger |-> imgNow,
      layerAtTrigger |-> layerNow,
      replaced |-> FALSE ]

\* lines 33 and 56: img is assigned, the load it held (if in flight) goes on
Orphaned(loads) ==
    IF img.state = "loading"
    THEN [loads EXCEPT ![img.url] = @ + 1]
    ELSE loads

\* lines 31-91
updateWithProps(newProps) ==
    LET startLoad == DisplayUrlChanged(newProps, currentProps)
        dropImage == ~startLoad /\ DisplayUrlDropped(newProps, currentProps)
        imgNow == IF startLoad
                  THEN [url |-> newProps.displayImgUrl, state |-> "loading"]
                  ELSE IF dropImage THEN NoImg ELSE img
        layerNow == IF dropImage /\ highlightLayer.exists
                    THEN [highlightLayer EXCEPT !.strokes = {}]
                    ELSE highlightLayer
        edge == TriggerEdge(newProps, currentProps)
        seen == [k \in DOMAIN composites |->
                    IF composites[k].load = "pending" /\ startLoad
                    THEN [composites[k] EXCEPT !.replaced = TRUE]
                    ELSE composites[k]]
    IN  /\ startLoad => nLoads < MaxDisplayLoads
        /\ edge => Len(composites) < MaxTriggers
        /\ img' = imgNow
        /\ highlightLayer' = layerNow
        /\ staleLoads' = IF startLoad \/ dropImage THEN Orphaned(staleLoads) ELSE staleLoads
        /\ nLoads' = IF startLoad THEN nLoads + 1 ELSE nLoads
        /\ composites' = IF edge
                         THEN Append(seen, NewComposite(newProps, imgNow, layerNow))
                         ELSE seen
        /\ currentProps' = newProps

----------------------------------------------------------------------------
(* function App of src/App.tsx: the caller of the sketch *)

\* App.tsx line 63: useState(40)
InitialBrushSize == 40

\* App.tsx line 65: the default highlight colour
DefaultColor == "#FFFF00"

\* the documents a user selects
DocUrls == {"doc1", "doc2"}

\* the texts typed into a prompt field
Prompts == {"", " ", "remove"}

\* String.prototype.trim on the prompts above
Trim(prompt) == IF prompt = " " THEN "" ELSE prompt

\* the images the model answers a request with
GeneratedUrls == {"gen1", "gen2"}

\* App.tsx lines 61-71: the state hooks after the first render; callbackDoc is
\* the docImgUrl that the onCompositeImageReady handed to the sketch together
\* with the trigger closes over (line 177), and request the docImgUrl of the
\* invocation of onCompositeImageReady that awaits the answer of the model
\* (lines 130-150), NULL when none does; rendering holds the PDF files whose
\* first page processFile is converting (lines 214-228)
AppInit ==
    [ docImgUrl |-> NULL,
      highlighting |-> FALSE,
      brushSize |-> InitialBrushSize,
      highlights |-> << >>,
      currentColor |-> DefaultColor,
      generationTrigger |-> FALSE,
      isGenerating |-> FALSE,
      callbackDoc |-> NULL,
      request |-> NULL,
      rendering |-> {} ]

\* App.tsx lines 287-295: the props App renders P5Canvas with; App passes
\* docImgUrl, a prop P5Canvas does not read, and neither displayImgUrl nor
\* fullResImgUrl nor onBrushSizeChange, so the sketch sees those undefined
AppProps(a) ==
    [ displayImgUrl |-> NULL,
      fullResImgUrl |-> NULL,
      highlighting |-> a.highlighting,
      brushSize |-> a.brushSize,
      highlightColor |-> a.currentColor,
      generationTrigger |-> a.generationTrigger ]

isSendDisabledByPromptsOnly(a) ==
    \/ Len(a.highlights) = 0
    \/ \E i \in DOMAIN a.highlights : Trim(a.highlights[i]) = ""

\* App.tsx line 276
isSendDisabled(a) ==
    \/ Len(a.highlights) = 0
    \/ \E i \in DOMAIN a.highlights : Trim(a.highlights[i]) = ""
    \/ a.isGenerating

\* App.tsx line 277
isTryAgainDisabled(a) == a.isGenerating

\* App.tsx lines 102-108
handleTryAgain(a) ==
    [a EXCEPT !.docImgUrl = NULL, !.highlights = << >>, !.highlighting = FALSE]

\* App.tsx lines 118-120
onGenerationTriggerConsumed(a) ==
    [a EXCEPT !.generationTrigger = FALSE]

\* App.tsx lines 122-150: the handler up to its await; without a document it
\* ends with setIsGenerating(false) (lines 123-127), otherwise it sends the
\* document it closes over to the model and waits
onCompositeImageReady(a) ==
    IF a.callbackDoc = NULL
    THEN [a EXCEPT !.isGenerating = FALSE]
    ELSE [a EXCEPT !.request = a.callbackDoc]

\* App.tsx lines 152-175: the model answered with an image; the state is
\* reset, the image becomes the document, finally setIsGenerating(false)
generationSucceeded(a, newImageUrl) ==
    [a EXCEPT !.highlights = << >>, !.highlighting = FALSE,
              !.docImgUrl = newImageUrl, !.isGenerating = FALSE, !.request = NULL]

\* App.tsx lines 160-175: the model answered without an image, or the request
\* threw; an error is shown, finally setIsGenerating(false)
generationFailed(a) ==
    [a EXCEPT !.isGenerating = FALSE, !.request = NULL]

\* App.tsx lines 180 and 184: the range the brush size is kept in
MinBrushSize == 5
MaxBrushSize == 150

\* App.tsx lines 179-181
increaseBrushSize(a) ==
    [a EXCEPT !.brushSize = IF @ + BrushStep < MaxBrushSize THEN @ + BrushStep
                                                           ELSE MaxBrushSize]

\* App.tsx lines 183-185
decreaseBrushSize(a) ==
    [a EXCEPT !.brushSize = IF @ - BrushStep > MinBrushSize THEN @ - BrushStep
                                                           ELSE MinBrushSize]

\* the handlers of App applied to the callbacks the sketch invoked, in order
RECURSIVE AppAfterCalls(_, _)
AppAfterCalls(a, calls) ==
    IF calls = << >>
    THEN a
    ELSE AppAfterCalls(IF Head(calls) = "onGenerationTriggerConsumed"
                       THEN onGenerationTriggerConsumed(a)
                       ELSE onCompositeImageReady(a),
                       Tail(calls))

----------------------------------------------------------------------------
(* Actions *)

Init ==
    /\ pc = "constructed"
    /\ width = 0
    /\ height = 0
    /\ img = NoImg
    /\ highlightLayer = NoLayer
    /\ view = [x |-> 0, y |-> 0, zoom |-> Milli]
    /\ lastMouse = [x |-> 0, y |-> 0]
    /\ isDragging = FALSE
    /\ currentProps \in MountProps
    /\ mouse = [x |-> 0, y |-> 0]
    /\ pmouse = [x |-> 0, y |-> 0]
    /\ mouseIsPressed = FALSE
    /\ mouseButton = LEFT
    /\ staleLoads = [u \in DisplayUrls |-> 0]
    /\ nLoads = 0
    /\ composites = << >>
    /\ brushCalls = << >>
    /\ wheel = [n |-> 0, x |-> 0, y |-> 0, deltaY |-> 0]
    /\ app = AppInit

\* lines 93-98: createCanvas, then updateWithProps with the props of the mount,
\* which are the props currentProps was initialised with (line 29)
Setup ==
    /\ pc = "constructed"
    /\ pc' = "running"
    /\ width' = OffsetWidth
    /\ height' = OffsetHeight
    /\ updateWithProps(currentProps)
    /\ UNCHANGED << view, lastMouse, isDragging, mouse, pmouse, mouseIsPressed, mouseButton >>
    /\ UNCHANGED << app, brushCalls, wheel >>

\* lines 200-204: the effect that forwards every change of the props
UpdateWithProps(newProps) ==
    /\ pc = "running"
    /\ updateWithProps(newProps)
    /\ UNCHANGED << pc, width, height, view, lastMouse, isDragging, mouse, pmouse,
                    mouseIsPressed, mouseButton >>
    /\ UNCHANGED << app, brushCalls, wheel >>

\* a display load in flight: of the image img holds (current), or a stale one
LoadInFlight(url, current) ==
    IF current
    THEN img.state = "loading" /\ img.url = url
    ELSE staleLoads[url] > 0

\* lines 33-54: the success callback of a display load
DisplayLoaded(url, current) ==
    /\ pc = "running"
    /\ LoadInFlight(url, current)
    /\ LET iw == ImgWidth(url)
           ih == ImgHeight(url)
           zoom == FitZoom(iw, ih, width, height)
       IN /\ view' = [x |-> FitOffset(iw, width, zoom),
                      y |-> FitOffset(ih, height, zoom),
                      zoom |-> zoom]
          /\ highlightLayer' = [exists |-> TRUE, w |-> iw, h |-> ih, strokes |-> {}]
    /\ img' = IF current THEN [img EXCEPT !.state = "loaded"] ELSE img
    /\ staleLoads' = IF current THEN staleLoads ELSE [staleLoads EXCEPT ![url] = @ - 1]
    /\ UNCHANGED << pc, width, height, lastMouse, isDragging, currentProps, mouse, pmouse,
                    mouseIsPressed, mouseButton, nLoads, composites >>
    /\ UNCHANGED << app, brushCalls, wheel >>

\* line 33: loadImage is given no failure callback, so a failed display load
\* runs no code of the sketch; img keeps the object loadImage returned
DisplayLoadFailed(url, current) ==
    /\ pc = "running"
    /\ LoadInFlight(url, current)
    /\ img' = IF current THEN [img EXCEPT !.state = "failed"] ELSE img
    /\ staleLoads' = IF current THEN staleLoads ELSE [staleLoads EXCEPT ![url] = @ - 1]
    /\ UNCHANGED << pc, width, height, highlightLayer, view, lastMouse, isDragging,
                    currentProps, mouse, pmouse, mouseIsPressed, mouseButton, nLoads, composites >>
    /\ UNCHANGED << app, brushCalls, wheel >>

\* lines 63-79: the success callback of a full-resolution load
FullResLoaded(k) ==
    /\ pc = "running"
    /\ k \in 1..Len(composites)
    /\ composites[k].load = "pending"
    /\ composites' = [composites EXCEPT
            ![k].load = "ok",
            ![k].calls = LoadSuccessCalls,
            ![k].artifact = [raster |-> composites[k].url,
                             w |-> ImgWidth(composites[k].url),
                             h |-> ImgHeight(composites[k].url),
                             layer |-> highlightLayer]]
    /\ UNCHANGED << pc, width, height, img, highlightLayer, view, lastMouse, isDragging,
                    currentProps, mouse, pmouse, mouseIsPressed, mouseButton,
                    staleLoads, nLoads >>
    /\ UNCHANGED << app, brushCalls, wheel >>

\* lines 80-83: the failure callback of a full-resolution load
FullResLoadFailed(k) ==
    /\ pc = "running"
    /\ k \in 1..Len(composites)
    /\ composites[k].load = "pending"
    /\ composites' = [composites EXCEPT
            ![k].load = "failed",
            ![k].calls = LoadFailureCalls]
    /\ UNCHANGED << pc, width, height, img, highlightLayer, view, lastMouse, isDragging,
                    currentProps, mouse, pmouse, mouseIsPressed, mouseButton,
                    staleLoads, nLoads >>
    /\ UNCHANGED << app, brushCalls, wheel >>

\* lines 100-123: a frame; it draws and changes nothing of the sketch, and p5
\* then makes the current pointer position the previous one
Draw ==
    /\ pc = "running"
    /\ pmouse' = mouse
    /\ UNCHANGED << pc, width, height, img, highlightLayer, view, lastMouse, isDragging,
                    currentProps, mouse, mouseIsPressed, mouseButton, staleLoads,
                    nLoads, composites >>
    /\ UNCHANGED << app, brushCalls, wheel >>

\* lines 131-138
MousePressed(pt, button) ==
    /\ pc = "running"
    /\ ~mouseIsPressed
    /\ mouse' = pt
    /\ mouseIsPressed' = TRUE
    /\ mouseButton' = button
    /\ IF ~OutOfBounds(pt) /\ button = LEFT /\ ~currentProps.highlighting
       THEN /\ isDragging' = TRUE
            /\ lastMouse' = pt
       ELSE UNCHANGED << isDragging, lastMouse >>
    /\ UNCHANGED << pc, width, height, img, highlightLayer, view, currentProps, pmouse,
                    staleLoads, nLoads, composites >>
    /\ UNCHANGED << app, brushCalls, wheel >>

\* line 140
MouseReleased(pt) ==
    /\ pc = "running"
    /\ mouseIsPressed
    /\ mouse' = pt
    /\ mouseIsPressed' = FALSE
    /\ isDragging' = FALSE
    /\ UNCHANGED << pc, width, height, img, highlightLayer, view, lastMouse, currentProps,
                    pmouse, mouseButton, staleLoads, nLoads, composites >>
    /\ UNCHANGED << app, brushCalls, wheel >>

\* lines 150-160: the segment drawn into the highlight layer
Segment(from, to) ==
    [ x1 |-> ScreenToImage(from.x, view.x, view.zoom),
      y1 |-> ScreenToImage(from.y, view.y, view.zoom),
      x2 |-> ScreenToImage(to.x, view.x, view.zoom),
      y2 |-> ScreenToImage(to.y, view.y, view.zoom),
      weight |-> (currentProps.brushSize * Milli * Milli) \div view.zoom,
      color |-> currentProps.highlightColor ]

\* a pan branch that forgets the mode
PansViewInAnyMode ==
    isDragging

\* line 143
PansView ==
    isDragging /\ ~currentProps.highlighting

\* line 149
PaintsSegment ==
    currentProps.highlighting /\ highlightLayer.exists

\* lines 142-162: a pointer move with a button held down
MouseDragged(pt) ==
    /\ pc = "running"
    /\ mouseIsPressed
    /\ mouse' = pt
    /\ IF img.state = "none" \/ OutOfBounds(pt)
       THEN UNCHANGED << view, lastMouse, highlightLayer >>
       ELSE IF PansView
       THEN /\ view' = Pan(view, pt.x - lastMouse.x, pt.y - lastMouse.y)
            /\ view'.x \in (-MaxPan * Milli)..(MaxPan * Milli)
            /\ view'.y \in (-MaxPan * Milli)..(MaxPan * Milli)
            /\ lastMouse' = pt
            /\ UNCHANGED highlightLayer
       ELSE IF PaintsSegment
       THEN /\ highlightLayer' = [highlightLayer EXCEPT !.strokes = @ \cup {Segment(pmouse, pt)}]
            /\ Cardinality(highlightLayer'.strokes) <= MaxStrokes
            /\ UNCHANGED << view, lastMouse >>
       ELSE UNCHANGED << view, lastMouse, highlightLayer >>
    /\ UNCHANGED << pc, width, height, img, isDragging, currentProps, pmouse,
                    mouseIsPressed, mouseButton, staleLoads, nLoads, composites >>
    /\ UNCHANGED << app, brushCalls, wheel >>

\* a pointer move with no button held down: the sketch defines no mouseMoved,
\* p5 records the position
MouseMoved(pt) ==
    /\ pc = "running"
    /\ ~mouseIsPressed
    /\ mouse' = pt
    /\ UNCHANGED << pc, width, height, img, highlightLayer, view, lastMouse, isDragging,
                    currentProps, pmouse, mouseIsPressed, mouseButton, staleLoads,
                    nLoads, composites >>
    /\ UNCHANGED << app, brushCalls, wheel >>

\* lines 125-129
WindowResized(size) ==
    /\ pc = "running"
    /\ IF size.w > 0 /\ size.h > 0
       THEN width' = size.w /\ height' = size.h
       ELSE UNCHANGED << width, height >>
    /\ UNCHANGED << pc, img, highlightLayer, view, lastMouse, isDragging, currentProps,
                    mouse, pmouse, mouseIsPressed, mouseButton, staleLoads, nLoads,
                    composites, brushCalls, wheel, app >>

\* lines 164-186: a wheel event at pt
MouseWheel(pt, deltaY) ==
    /\ pc = "running"
    /\ IF OutOfBounds(pt)
       THEN UNCHANGED << view, brushCalls, wheel >>
       ELSE /\ wheel.n < MaxWheels
            /\ wheel' = [n |-> wheel.n + 1, x |-> pt.x, y |-> pt.y, deltaY |-> deltaY]
            /\ IF currentProps.highlighting
               THEN /\ brushCalls' = Append(brushCalls,
                            currentProps.brushSize + Direction(deltaY) * BrushStep)
                    /\ UNCHANGED view
               ELSE /\ LET zoom == WheelZoom(view.zoom, Direction(deltaY))
                       IN view' = IF zoom # view.zoom
                                  THEN [x |-> PivotOffset(pt.x, view.x, zoom, view.zoom),
                                        y |-> PivotOffset(pt.y, view.y, zoom, view.zoom),
                                        zoom |-> zoom]
                                  ELSE view
                    /\ UNCHANGED brushCalls
    /\ UNCHANGED << pc, width, height, img, highlightLayer, lastMouse, isDragging,
                    currentProps, mouse, pmouse, mouseIsPressed, mouseButton, staleLoads,
                    nLoads, composites, app >>

----------------------------------------------------------------------------
(* Actions of App *)

\* App.tsx lines 205-240: a file is chosen; handleTryAgain, then docImgUrl
\* is the URL of the file, or stays null for a file that is no image or PDF
ProcessFile(url) ==
    /\ app' = [handleTryAgain(app) EXCEPT !.docImgUrl = url]
    /\ UNCHANGED << pc, width, height, img, highlightLayer, view, lastMouse, isDragging,
                    currentProps, mouse, pmouse, mouseIsPressed, mouseButton,
                    staleLoads, nLoads, composites, brushCalls, wheel >>

\* App.tsx lines 205-228: a PDF file is chosen; handleTryAgain, then its first
\* page is converted while the event loop runs on; a file is converted once
\* at a time
ProcessPdf(url) ==
    /\ url \notin app.rendering
    /\ app' = [handleTryAgain(app) EXCEPT !.rendering = @ \cup {url}]
    /\ UNCHANGED << pc, width, height, img, highlightLayer, view, lastMouse, isDragging,
                    currentProps, mouse, pmouse, mouseIsPressed, mouseButton,
                    staleLoads, nLoads, composites, brushCalls, wheel >>

\* App.tsx lines 218-228: the page is rendered and becomes the document
PdfRendered(url) ==
    /\ url \in app.rendering
    /\ app' = [app EXCEPT !.docImgUrl = url, !.rendering = @ \ {url}]
    /\ UNCHANGED << pc, width, height, img, highlightLayer, view, lastMouse, isDragging,
                    currentProps, mouse, pmouse, mouseIsPressed, mouseButton,
                    staleLoads, nLoads, composites, brushCalls, wheel >>

\* App.tsx lines 229-234: the conversion threw; an error is shown
PdfFailed(url) ==
    /\ url \in app.rendering
    /\ app' = [app EXCEPT !.rendering = @ \ {url}]
    /\ UNCHANGED << pc, width, height, img, highlightLayer, view, lastMouse, isDragging,
                    currentProps, mouse, pmouse, mouseIsPressed, mouseButton,
                    staleLoads, nLoads, composites, brushCalls, wheel >>

\* App.tsx lines 75-93: the 'a' key (lines 187-192) or the Highlight button;
\* entering the mode adds a highlight with an empty prompt
ToggleHighlighting ==
    /\ ~app.highlighting => Len(app.highlights) < MaxHighlights
    /\ app' = [app EXCEPT !.highlighting = ~@,
                          !.highlights = IF app.highlighting THEN @ ELSE Append(@, "")]
    /\ UNCHANGED << pc, width, height, img, highlightLayer, view, lastMouse, isDragging,
                    currentProps, mouse, pmouse, mouseIsPressed, mouseButton,
                    staleLoads, nLoads, composites, brushCalls, wheel >>

\* App.tsx lines 95-99
HandlePromptChange(i, newPrompt) ==
    /\ i \in DOMAIN app.highlights
    /\ app' = [app EXCEPT !.highlights[i] = newPrompt]
    /\ UNCHANGED << pc, width, height, img, highlightLayer, view, lastMouse, isDragging,
                    currentProps, mouse, pmouse, mouseIsPressed, mouseButton,
                    staleLoads, nLoads, composites, brushCalls, wheel >>

\* App.tsx lines 102-108 behind the button of line 414
HandleTryAgain ==
    /\ ~isTryAgainDisabled(app)
    /\ app' = handleTryAgain(app)
    /\ UNCHANGED << pc, width, height, img, highlightLayer, view, lastMouse, isDragging,
                    currentProps, mouse, pmouse, mouseIsPressed, mouseButton,
                    staleLoads, nLoads, composites, brushCalls, wheel >>

\* App.tsx lines 110-116 behind the button of line 408
HandleSendToGenerate ==
    /\ ~isSendDisabled(app)
    /\ app' = IF app.docImgUrl = NULL
              THEN app
              ELSE [app EXCEPT !.isGenerating = TRUE, !.generationTrigger = TRUE,
                               !.callbackDoc = app.docImgUrl]
    /\ UNCHANGED << pc, width, height, img, highlightLayer, view, lastMouse, isDragging,
                    currentProps, mouse, pmouse, mouseIsPressed, mouseButton,
                    staleLoads, nLoads, composites, brushCalls, wheel >>
\* App.tsx lines 193-196 and 336-338: the '+' or '=' key, or the button shown
\* in highlight mode
IncreaseBrushSize ==
    /\ app.highlighting
    /\ app' = increaseBrushSize(app)
    /\ UNCHANGED << pc, width, height, img, highlightLayer, view, lastMouse, isDragging,
                    currentProps, mouse, pmouse, mouseIsPressed, mouseButton,
                    staleLoads, nLoads, composites, brushCalls, wheel >>

\* App.tsx lines 196-198 and 327-329: the '-' key, or the button shown in
\* highlight mode
DecreaseBrushSize ==
    /\ app.highlighting
    /\ app' = decreaseBrushSize(app)
    /\ UNCHANGED << pc, width, height, img, highlightLayer, view, lastMouse, isDragging,
                    currentProps, mouse, pmouse, mouseIsPressed, mouseButton,
                    staleLoads, nLoads, composites, brushCalls, wheel >>

\* P5Canvas.tsx lines 73-77 seen from App: a sketch that was handed a raised
\* trigger and loaded its full-resolution image calls onCompositeImageReady,
\* then onGenerationTriggerConsumed
CompositeDelivered ==
    /\ app.generationTrigger
    /\ app' = AppAfterCalls(app, LoadSuccessCalls)
    /\ UNCHANGED << pc, width, height, img, highlightLayer, view, lastMouse, isDragging,
                    currentProps, mouse, pmouse, mouseIsPressed, mouseButton,
                    staleLoads, nLoads, composites, brushCalls, wheel >>

\* P5Canvas.tsx lines 80-87 seen from App: a sketch that was handed a raised
\* trigger and could not compose calls onGenerationTriggerConsumed only
TriggerConsumed ==
    /\ app.generationTrigger
    /\ app' = AppAfterCalls(app, LoadFailureCalls)
    /\ UNCHANGED << pc, width, height, img, highlightLayer, view, lastMouse, isDragging,
                    currentProps, mouse, pmouse, mouseIsPressed, mouseButton,
                    staleLoads, nLoads, composites, brushCalls, wheel >>

\* App.tsx lines 152-175: the request answered with an image
GenerationSucceeded(newImageUrl) ==
    /\ app.request # NULL
    /\ app' = generationSucceeded(app, newImageUrl)
    /\ UNCHANGED << pc, width, height, img, highlightLayer, view, lastMouse, isDragging,
                    currentProps, mouse, pmouse, mouseIsPressed, mouseButton,
                    staleLoads, nLoads, composites, brushCalls, wheel >>

\* App.tsx lines 160-175: the request answered without an image, or threw
GenerationFailed ==
    /\ app.request # NULL
    /\ app' = generationFailed(app)
    /\ UNCHANGED << pc, width, height, img, highlightLayer, view, lastMouse, isDragging,
                    currentProps, mouse, pmouse, mouseIsPressed, mouseButton,
                    staleLoads, nLoads, composites, brushCalls, wheel >>

\* P5Canvas.tsx lines 200-204 under App: after a render that changed the
\* props, the effect hands them to updateWithProps, and the callbacks
\* updateWithProps invokes run the handlers of App
RenderEffect ==
    /\ pc = "running"
    /\ AppProps(app) # currentProps
    /\ updateWithProps(AppProps(app))
    /\ app' = AppAfterCalls(app, IF Len(composites') > Len(composites)
                                 THEN composites'[Len(composites')].calls
                                 ELSE << >>)
    /\ UNCHANGED << pc, width, height, view, lastMouse, isDragging, mouse, pmouse,
                    mouseIsPressed, mouseButton, brushCalls, wheel >>

----------------------------------------------------------------------------
(* Specifications *)

\* the image loader and the compositor: setup, the props effect and the
\* callbacks of the loads
Next ==
    \/ Setup
    \/ \E newProps \in PropsSet : UpdateWithProps(newProps)
    \/ \E url \in DisplayUrls, current \in BOOLEAN : DisplayLoaded(url, current)
    \/ \E url \in DisplayUrls, current \in BOOLEAN : DisplayLoadFailed(url, current)
    \/ \E k \in 1..MaxTriggers : FullResLoaded(k)
    \/ \E k \in 1..MaxTriggers : FullResLoadFailed(k)

Spec == Init /\ [][Next]_vars

\* the input dispatcher on top of the image loader: frames and pointer events,
\* with the trigger flag left false
NextInput ==
    \/ Setup
    \/ \E newProps \in {q \in PropsSet : ~q.generationTrigger} : UpdateWithProps(newProps)
    \/ \E url \in DisplayUrls, current \in BOOLEAN : DisplayLoaded(url, current)
    \/ \E url \in DisplayUrls, current \in BOOLEAN : DisplayLoadFailed(url, current)
    \/ Draw
    \/ \E pt \in MousePoints, button \in Buttons : MousePressed(pt, button)
    \/ \E pt \in MousePoints : MouseReleased(pt)
    \/ \E pt \in MousePoints : MouseDragged(pt)
    \/ \E pt \in MousePoints : MouseMoved(pt)

InitInput == Init /\ ~currentProps.generationTrigger

SpecInput == InitInput /\ [][NextInput]_vars

\* the props of a caller that supplies one document and switches the mode
ViewProps ==
    { q \in PropsSet : /\ q.displayImgUrl = "b"
                       /\ q.fullResImgUrl = NULL
                       /\ ~q.generationTrigger }

\* the component is mounted before a document is chosen, in pan mode
InitView ==
    /\ Init
    /\ currentProps.displayImgUrl = NULL
    /\ currentProps.fullResImgUrl = NULL
    /\ ~currentProps.highlighting
    /\ ~currentProps.generationTrigger

\* the wheel: a document is supplied after the mount and fitted into the
\* canvas the window gives, the mode is switched and the wheel is turned
NextWheel ==
    \/ Setup
    \/ \E newProps \in ViewProps : UpdateWithProps(newProps)
    \/ \E url \in DisplayUrls, current \in BOOLEAN : DisplayLoaded(url, current)
    \/ \E size \in ContainerSizes : WindowResized(size)
    \/ \E pt \in MousePoints, deltaY \in DeltaYs : MouseWheel(pt, deltaY)

SpecWheel == InitView /\ [][NextWheel]_vars

\* the props of a caller that supplies documents and nothing else
FitProps ==
    { q \in PropsSet : /\ q.displayImgUrl # NULL
                       /\ q.fullResImgUrl = NULL
                       /\ ~q.highlighting
                       /\ ~q.generationTrigger }

\* the auto-fit: documents are supplied after the mount and loaded into the
\* canvas the window gives
NextFit ==
    \/ Setup
    \/ \E newProps \in FitProps : UpdateWithProps(newProps)
    \/ \E url \in DisplayUrls, current \in BOOLEAN : DisplayLoaded(url, current)
    \/ \E url \in DisplayUrls, current \in BOOLEAN : DisplayLoadFailed(url, current)
    \/ \E size \in ContainerSizes : WindowResized(size)

SpecFit == InitView /\ [][NextFit]_vars

\* the props effect of a caller that does not leave highlight mode
UpdateKeepingHighlight(newProps) ==
    /\ currentProps.highlighting => newProps.highlighting
    /\ UpdateWithProps(newProps)

\* the wheel events of the viewport specification: one outside the canvas
\* and one inside, a notch either way
WheelPoints == { [x |-> -10, y |-> 50], [x |-> 100, y |-> 50] }
WheelNotches == {-100, 100}

\* the input dispatcher and the viewport: a document is supplied after the
\* mount, buttons are pressed, the pointer is dragged and the wheel is turned,
\* and the caller switches highlight mode on; the previous pointer position,
\* which only the painted segments read, is left where it starts
NextView ==
    \/ Setup
    \/ \E newProps \in ViewProps : UpdateKeepingHighlight(newProps)
    \/ \E url \in DisplayUrls, current \in BOOLEAN : DisplayLoaded(url, current)
    \/ \E pt \in MousePoints, button \in Buttons : MousePressed(pt, button)
    \/ \E pt \in MousePoints : MouseReleased(pt)
    \/ \E pt \in MousePoints : MouseDragged(pt)
    \/ \E pt \in WheelPoints, deltaY \in WheelNotches : MouseWheel(pt, deltaY)

SpecView == InitView /\ [][NextView]_vars

\* the props of a caller that supplies one document or none, and switches the
\* mode
DropProps ==
    { q \in PropsSet : /\ q.displayImgUrl \in {NULL, "b"}
                       /\ q.fullResImgUrl = NULL
                       /\ ~q.generationTrigger }

\* the document is supplied, taken away and supplied again; every load
\* succeeds, and the pointer is pressed and dragged in either mode
NextDrop ==
    \/ Setup
    \/ \E newProps \in DropProps : UpdateWithProps(newProps)
    \/ \E url \in DisplayUrls, current \in BOOLEAN : DisplayLoaded(url, current)
    \/ \E pt \in MousePoints, button \in Buttons : MousePressed(pt, button)
    \/ \E pt \in MousePoints : MouseReleased(pt)
    \/ \E pt \in MousePoints : MouseDragged(pt)

SpecDrop == InitView /\ [][NextDrop]_vars

\* the sketch mounted by App: the handlers of App, setup and the props effect;
\* App never supplies a URL the sketch reads, so no load is ever started
NextApp ==
    \/ Setup
    \/ \E url \in DocUrls \cup {NULL} : ProcessFile(url)
    \/ ToggleHighlighting
    \/ \E i \in 1..MaxHighlights, newPrompt \in Prompts : HandlePromptChange(i, newPrompt)
    \/ HandleTryAgain
    \/ HandleSendToGenerate
    \/ RenderEffect

InitApp == Init /\ currentProps = AppProps(AppInit)

SpecApp == InitApp /\ [][NextApp]_vars

\* the props of a caller that holds the brush size in the range of App, at
\* either end of it or at the initial size, and supplies onBrushSizeChange
BrushProps ==
    [ displayImgUrl : {NULL},
      fullResImgUrl : {NULL},
      highlighting : BOOLEAN,
      brushSize : {MinBrushSize, InitialBrushSize, MaxBrushSize},
      highlightColor : HighlightColors,
      generationTrigger : {FALSE} ]

\* the brush size: in App the mode is switched and the size is stepped up and
\* down; in a sketch whose caller holds such sizes and switches the mode, the
\* wheel is turned a notch either way
NextBrush ==
    \/ Setup
    \/ \E newProps \in BrushProps : UpdateWithProps(newProps)
    \/ \E pt \in WheelPoints, deltaY \in WheelNotches : MouseWheel(pt, deltaY)
    \/ ToggleHighlighting
    \/ IncreaseBrushSize
    \/ DecreaseBrushSize

SpecBrush == InitView /\ [][NextBrush]_vars

\* App with a sketch that answers a raised trigger as lines 60-88 of
\* P5Canvas.tsx prescribe, and the requests to the model
NextGenerate ==
    \/ \E url \in DocUrls \cup {NULL} : ProcessFile(url)
    \/ \E url \in DocUrls : ProcessPdf(url)
    \/ \E url \in DocUrls : PdfRendered(url)
    \/ \E url \in DocUrls : PdfFailed(url)
    \/ ToggleHighlighting
    \/ \E i \in 1..MaxHighlights, newPrompt \in Prompts : HandlePromptChange(i, newPrompt)
    \/ HandleTryAgain
    \/ HandleSendToGenerate
    \/ CompositeDelivered
    \/ TriggerConsumed
    \/ \E newImageUrl \in GeneratedUrls : GenerationSucceeded(newImageUrl)
    \/ GenerationFailed

SpecGenerate == InitApp /\ [][NextGenerate]_vars

----------------------------------------------------------------------------
(* Properties of the compositor *)

Ready == "onCompositeImageReady"
Consumed == "onGenerationTriggerConsumed"

\* how often callback c was invoked for a trigger
Count(calls, c) == Cardinality({i \in DOMAIN calls : calls[i] = c})

\* C1: every trigger edge has onGenerationTriggerConsumed invoked exactly once,
\* on each path: at once when no load is started, and by the callback of the
\* full-resolution load once it resolves (not before, and not twice)
C1_ConsumedExactlyOnce ==
    \A k \in DOMAIN composites :
        Count(composites[k].calls, Consumed) =
            IF composites[k].load = "pending" THEN 0 ELSE 1

\* a trigger edge consumed on the path that starts no load
C1_Witness ==
    \E k \in DOMAIN composites :
        /\ composites[k].load = "none"
        /\ Count(composites[k].calls, Consumed) = 1

\* C2: a trigger whose full-resolution load succeeded had onCompositeImageReady
\* invoked once and then onGenerationTriggerConsumed once, in that order; and
\* on no path does a trigger see the consumed callback before the artifact one
C2_ReadyThenConsumed ==
    \A k \in DOMAIN composites :
        /\ composites[k].load = "ok" =>
               composites[k].calls = << Ready, Consumed >>
        /\ \A i, j \in DOMAIN composites[k].calls :
               (composites[k].calls[i] = Consumed /\ composites[k].calls[j] = Ready) => j < i

\* a trigger seen with a loaded image and layer whose load succeeded
C2_Witness ==
    \E k \in DOMAIN composites :
        /\ composites[k].load = "ok"
        /\ composites[k].imgAtTrigger.state = "loaded"
        /\ composites[k].layerAtTrigger.exists

\* C3: a trigger edge seen while img is undefined has the consumed callback
\* invoked exactly once and the artifact callback never, whatever fullResImgUrl
C3_NoImageNoArtifact ==
    \A k \in DOMAIN composites :
        composites[k].imgAtTrigger.state = "none" =>
            /\ Count(composites[k].calls, Ready) = 0
            /\ composites[k].load # "pending" => Count(composites[k].calls, Consumed) = 1

\* C4: a trigger whose full-resolution load failed had the consumed callback
\* invoked and the artifact callback never
C4_FailureConsumesOnly ==
    \A k \in DOMAIN composites :
        composites[k].load = "failed" =>
            /\ Count(composites[k].calls, Consumed) = 1
            /\ Count(composites[k].calls, Ready) = 0
            /\ composites[k].artifact = NoArtifact

\* a trigger whose full-resolution load failed
C4_Witness ==
    \E k \in DOMAIN composites :
        /\ composites[k].load = "failed"
        /\ composites[k].url \in FullResUrls

\* C5: a step starts a composite only if it applies props with
\* generationTrigger true over props with generationTrigger false, and starts
\* at most one; every other step, an update that keeps the flag true included,
\* invokes callbacks only by resolving a load that was in flight
C5_EdgeTriggered ==
    [][ /\ Len(composites') <= Len(composites) + 1
        /\ Len(composites') > Len(composites) =>
               (~currentProps.generationTrigger /\ currentProps'.generationTrigger)
        /\ \A k \in DOMAIN composites :
               composites'[k].calls # composites[k].calls =>
                   (composites[k].load = "pending" /\ composites'[k].load \in {"ok", "failed"})
      ]_vars

\* one trigger edge was seen and a later update changed fullResImgUrl while
\* the flag stayed true
C5_Witness ==
    /\ Len(composites) = 1
    /\ currentProps.generationTrigger
    /\ currentProps.fullResImgUrl # composites[1].fullResImgUrl

----------------------------------------------------------------------------
(* Properties of the image loader and the highlight layer *)

\* no display load is in flight
NoDisplayLoadPending ==
    /\ img.state # "loading"
    /\ \A u \in DisplayUrls : staleLoads[u] = 0

\* C6: whenever the image img holds has loaded and no display load is in
\* flight, the highlight layer has the pixel size of that image
C6_LayerMatchesImage ==
    (img.state = "loaded" /\ NoDisplayLoadPending) =>
        /\ highlightLayer.exists
        /\ highlightLayer.w = ImgWidth(img.url)
        /\ highlightLayer.h = ImgHeight(img.url)

\* C7: while the load of a newly supplied display URL is in flight, the layer
\* not yet cleared and resized for it, no step paints a stroke segment into
\* the highlight layer
C7_NoStrokeWhileLoading ==
    [][ img.state = "loading" =>
            highlightLayer'.strokes \subseteq highlightLayer.strokes ]_vars

\* C8: once the sketch runs, a non-null displayImgUrl in the applied props,
\* those of the mount included, has a load started for it (img is the image
\* of that URL), and when that load has completed the layer is allocated to
\* the image's pixel size
C8_SuppliedUrlIsLoaded ==
    (pc = "running" /\ currentProps.displayImgUrl # NULL) =>
        /\ img.url = currentProps.displayImgUrl
        /\ img.state \in {"loading", "loaded", "failed"}
        /\ (img.state = "loaded" /\ NoDisplayLoadPending) => highlightLayer.exists

\* C9: a trigger edge seen with a loaded image and fullResImgUrl null loads
\* the display URL as the full-resolution raster instead of skipping the
\* composite
C9_DisplayUrlAsFullRes ==
    \A k \in DOMAIN composites :
        (composites[k].imgAtTrigger.state = "loaded" /\ composites[k].fullResImgUrl = NULL) =>
            /\ composites[k].load # "none"
            /\ composites[k].url = composites[k].imgAtTrigger.url

\* C10: when the trigger was seen with a loaded image, img was replaced while
\* the composite's full-resolution load was in flight and an artifact is
\* emitted all the same, the artifact holds the highlight layer as it was when
\* the trigger was seen, whatever the order in which the loads completed
C10_ArtifactOfOldDocument ==
    \A k \in DOMAIN composites :
        ( /\ composites[k].imgAtTrigger.state = "loaded"
          /\ composites[k].replaced
          /\ composites[k].load = "ok" ) =>
            composites[k].artifact.layer = composites[k].layerAtTrigger

----------------------------------------------------------------------------
(* Properties of App as the caller of the compositor *)

\* C11: once the trigger App raised has been consumed and no composite is in
\* the making, the generation is over: isGenerating is false again, so that
\* 'Apply Edits' and 'Clear All & Start Over' are not disabled by it
C11_ConsumedEndsGenerating ==
    ( /\ ~app.generationTrigger
      /\ ~currentProps.generationTrigger
      /\ \A k \in DOMAIN composites : composites[k].load # "pending" ) =>
        ~app.isGenerating

----------------------------------------------------------------------------
(* Properties of the viewport transform *)

\* a step that handled a wheel event inside the canvas
WheelHandled == wheel'.n = wheel.n + 1

\* the zoom range of the viewport, 0.1 to 10
ZoomRange == (Milli \div 10)..(10 * Milli)

Abs(n) == IF n < 0 THEN -n ELSE n

\* C12: every wheel event handled inside the canvas while not highlighting,
\* from a viewport whose zoom is in [0.1, 10], leaves the zoom in [0.1, 10]
C12_WheelKeepsZoomInRange ==
    [][ (WheelHandled /\ ~currentProps.highlighting /\ view.zoom \in ZoomRange) =>
            view'.zoom \in ZoomRange ]_vars

\* the document was fitted into the 88 pixel wide canvas at zoom 0.104, and
\* one notch towards the user, 0.0988 unclamped, left the zoom at 0.1
C12_Witness ==
    LET iw == ImgWidth("b")
        ih == ImgHeight("b")
        fit == FitZoom(iw, ih, 88, 200)
    IN  /\ fit \in ZoomRange
        /\ (fit * 95) \div 100 \notin ZoomRange
        /\ wheel.n = 1
        /\ wheel.deltaY > 0
        /\ brushCalls = << >>
        /\ view = [x |-> PivotOffset(wheel.x, FitOffset(iw, 88, fit), Milli \div 10, fit),
                   y |-> PivotOffset(wheel.y, FitOffset(ih, 200, fit), Milli \div 10, fit),
                   zoom |-> Milli \div 10]

\* C13: in every reachable state the zoom of the viewport is in [0.1, 10],
\* right after the auto-fit of a loaded image included
C13_ZoomInRange ==
    view.zoom \in ZoomRange

\* C14: a handled wheel event that changes the zoom leaves the image-space
\* coordinate of its pivot, ((x - view.x) / zoom, (y - view.y) / zoom), where
\* it was, also when the new zoom was clamped; "the same" is up to the
\* resolution of the arithmetic, a thousandth of a screen pixel, which is
\* Milli / zoom thousandths of an image pixel
C14_PivotIsFixed ==
    [][ (WheelHandled /\ view'.zoom # view.zoom) =>
            /\ Abs(ScreenToImage(wheel'.x, view'.x, view'.zoom)
                   - ScreenToImage(wheel'.x, view.x, view.zoom)) <= Milli \div view'.zoom + 1
            /\ Abs(ScreenToImage(wheel'.y, view'.y, view'.zoom)
                   - ScreenToImage(wheel'.y, view.y, view.zoom)) <= Milli \div view'.zoom + 1
      ]_vars

\* one notch away from the user took the zoom from the 9.88 of the fit into
\* the very large canvas to the limit 10, 10.374 unclamped
C14_Witness ==
    /\ wheel.n = 1
    /\ wheel.deltaY <= 0
    /\ brushCalls = << >>
    /\ img.state = "loaded"
    /\ view.zoom = 10 * Milli

\* C15: a wheel event inside the canvas, while highlighting, calls
\* onBrushSizeChange exactly once, with brushSize - 5 when deltaY > 0 and
\* brushSize + 5 otherwise, and leaves the viewport alone; while not
\* highlighting it calls nothing and the zoom becomes zoom * 0.95 when
\* deltaY > 0 and zoom * 1.05 otherwise, clamped to [0.1, 10]
C15_WheelByMode ==
    [][ WheelHandled =>
            IF currentProps.highlighting
            THEN /\ brushCalls' = Append(brushCalls,
                        IF wheel'.deltaY > 0
                        THEN currentProps.brushSize - 5
                        ELSE currentProps.brushSize + 5)
                 /\ view' = view
            ELSE /\ brushCalls' = brushCalls
                 /\ LET scaled == IF wheel'.deltaY > 0
                                  THEN (view.zoom * 95) \div 100
                                  ELSE (view.zoom * 105) \div 100
                    IN view'.zoom = IF scaled < Milli \div 10 THEN Milli \div 10
                                    ELSE IF scaled > 10 * Milli THEN 10 * Milli
                                    ELSE scaled
      ]_vars

\* the zoom 1 of the mount went to 0.95 by a notch towards the user, and in
\* highlight mode a second such notch asked for brush size 35 instead of 40
C15_Witness ==
    /\ wheel.n = 2
    /\ wheel.deltaY > 0
    /\ currentProps.highlighting
    /\ currentProps.brushSize = 40
    /\ brushCalls = << 35 >>
    /\ img.state = "loading"
    /\ view.zoom = 950

----------------------------------------------------------------------------
(* Properties of the input dispatcher *)

\* a point outside the canvas
OutsideCanvas(pt) == pt.x < 0 \/ pt.x > width \/ pt.y < 0 \/ pt.y > height

\* a step that delivers a pointer-down event
PointerDown == ~mouseIsPressed /\ mouseIsPressed'

\* a step that delivers a pointer-move event with a button held down
PointerMove == mouseIsPressed /\ mouseIsPressed' /\ mouse' # mouse

\* a step that paints a stroke segment into the highlight layer
Paints == ~(highlightLayer'.strokes \subseteq highlightLayer.strokes)

\* C16: a pointer-down or pointer-move event outside the canvas changes
\* neither the viewport, the drag flag, the last pointer position nor the
\* highlight layer and invokes no callback; and every wheel event that was
\* handled had its coordinates inside the canvas
C16_OutOfBoundsIgnored ==
    [][ /\ ((PointerDown \/ PointerMove) /\ OutsideCanvas(mouse')) =>
               /\ view' = view
               /\ isDragging' = isDragging
               /\ lastMouse' = lastMouse
               /\ highlightLayer' = highlightLayer
               /\ brushCalls' = brushCalls
               /\ composites' = composites
        /\ wheel' # wheel => ~OutsideCanvas([x |-> wheel'.x, y |-> wheel'.y])
      ]_vars

\* in pan mode the left button went down outside the canvas of a loaded
\* image: no drag was started
C16_Witness ==
    /\ img.state = "loaded"
    /\ ~currentProps.highlighting
    /\ mouseIsPressed
    /\ mouseButton = LEFT
    /\ OutsideCanvas(mouse)
    /\ ~isDragging

\* C17: every pan step moves view.x and view.y by the displacement of the
\* pointer since the last pointer position and leaves the zoom alone, so
\* that view.x - lastMouse.x and view.y - lastMouse.y are the same before and
\* after: through any sequence of pan steps a pan by (dx, dy) followed by a
\* pan by (-dx, -dy), which brings the pointer back, restores view.x and
\* view.y and with them the image-space coordinate of every screen pixel
C17_PanInverseRestores ==
    [][ ( /\ PointerMove
          /\ isDragging
          /\ ~currentProps.highlighting
          /\ img.state # "none"
          /\ ~OutsideCanvas(mouse') ) =>
            /\ lastMouse' = mouse'
            /\ view'.x - lastMouse'.x * Milli = view.x - lastMouse.x * Milli
            /\ view'.y - lastMouse'.y * Milli = view.y - lastMouse.y * Milli
            /\ view'.zoom = view.zoom
            /\ \A s \in MousePoints :
                   /\ ScreenToImage(s.x - (lastMouse'.x - lastMouse.x), view.x, view.zoom)
                          = ScreenToImage(s.x, view'.x, view'.zoom)
                   /\ ScreenToImage(s.y - (lastMouse'.y - lastMouse.y), view.y, view.zoom)
                          = ScreenToImage(s.y, view'.y, view'.zoom)
      ]_vars

\* the view fitted to the document was panned by (200, 100), from the press
\* at (100, 50) to (300, 150)
C17_Witness ==
    LET iw == ImgWidth("b")
        ih == ImgHeight("b")
        fit == FitZoom(iw, ih, OffsetWidth, OffsetHeight)
    IN  /\ isDragging
        /\ img.state = "loaded"
        /\ lastMouse = [x |-> 300, y |-> 150]
        /\ view = [x |-> FitOffset(iw, OffsetWidth, fit) + 200 * Milli,
                   y |-> FitOffset(ih, OffsetHeight, fit) + 100 * Milli,
                   zoom |-> fit]

\* C18: while highlight mode is active no pointer-down, pointer-move or
\* wheel event changes view.x, view.y or view.zoom
C18_HighlightKeepsViewport ==
    [][ (currentProps.highlighting /\ (PointerDown \/ PointerMove \/ wheel' # wheel)) =>
            view' = view ]_vars

\* a pan drag was in progress when the mode switched, and the pointer then
\* moved inside the canvas: a segment was painted, the drag flag still set
C18_Witness ==
    /\ currentProps.highlighting
    /\ isDragging
    /\ mouseIsPressed
    /\ highlightLayer.strokes # {}

\* C19: no step paints a stroke segment while a pan drag is in progress
\* (isDragging is true), whatever the mode flag
C19_NoPaintWhileDragging ==
    [][ Paints => ~isDragging ]_vars

\* C20: a pointer-move in highlight mode paints a segment only if the
\* previous pointer position was inside the canvas
C20_PaintsFromInsideOnly ==
    [][ Paints => ~OutsideCanvas(pmouse) ]_vars

----------------------------------------------------------------------------
(* Properties of the image loader: failures and removal *)

\* C21: after the load of the display image failed the sketch holds no
\* document image: img is undefined again
C21_FailedLoadClearsImage ==
    img.state = "failed" => img = NoImg

\* the smaller of two numbers
Min(a, b) == IF a < b THEN a ELSE b

\* C22: when the load of the display image img holds completes, the viewport
\* is zoom = min(cw / iw, ch / ih) * 0.95, view.x = (cw - iw * zoom) / 2 and
\* view.y = (ch - ih * zoom) / 2 for the image size (iw, ih) and the canvas
\* size (cw, ch), and the scaled image lies inside the canvas
C22_FitsImageIntoCanvas ==
    [][ (img.state = "loading" /\ img'.state = "loaded") =>
            LET iw == ImgWidth(img.url)
                ih == ImgHeight(img.url)
                zoom == Min((width * 950) \div iw, (height * 950) \div ih)
            IN  /\ view'.zoom = zoom
                /\ view'.x = (width * Milli - iw * zoom) \div 2
                /\ view'.y = (height * Milli - ih * zoom) \div 2
                /\ view'.x >= 0
                /\ view'.y >= 0
                /\ view'.x + iw * zoom <= width * Milli
                /\ view'.y + ih * zoom <= height * Milli
      ]_vars

\* the square document a was fitted to the height of the 400 x 200 canvas
\* of the mount: zoom 0.95, centred at x = 105
C22_Witness ==
    /\ img = [url |-> "a", state |-> "loaded"]
    /\ width = 400
    /\ height = 200
    /\ view = [x |-> 105000, y |-> 5000, zoom |-> 950]

\* C23: App holds the trigger raised only while it is generating, and raises
\* it only when it is not generating: no trigger is unconsumed and no request
\* to the model is awaited at that moment, so that at most one composite is in
\* flight
C23_OneTriggerAtATime ==
    [][ /\ app'.generationTrigger => app'.isGenerating
        /\ app'.request # NULL => app'.isGenerating
        /\ (app'.generationTrigger /\ ~app.generationTrigger) =>
               /\ ~app.isGenerating
               /\ app.request = NULL ]_vars

\* a second trigger, raised on a document that a first generation produced
C23_Witness ==
    /\ app.generationTrigger
    /\ app.isGenerating
    /\ app.docImgUrl \in GeneratedUrls

\* C24: once the display URL became null the highlight layer stays empty
\* until a new document image has loaded. The caller supplies one URL only, so
\* a load is started only after a mount or a drop to null: whenever the sketch
\* holds no loaded image, the layer holds no stroke
C24_EmptyUntilLoaded ==
    img.state # "loaded" => highlightLayer.strokes = {}

\* C25: the brush size App holds lies between 5 and 150, and so does every
\* size the wheel handler passes to onBrushSizeChange for a caller that holds
\* the brush size in that range
C25_BrushSizeInRange ==
    /\ app.brushSize \in MinBrushSize..MaxBrushSize
    /\ \A i \in DOMAIN brushCalls : brushCalls[i] \in MinBrushSize..MaxBrushSize

====
